---- MODULE Spec2Model ----
(***************************************************************************)
(* testid-manager: the add, clean and compare commands as state machines   *)
(* over a set of test files.                                               *)
(*                                                                         *)
(* A string is a sequence of one-character strings.  A file is the         *)
(* sequence, in document order, of the call expressions the visitors look  *)
(* at; the calls of a file are siblings (no test declaration lies inside   *)
(* the arguments of another), so a visitor's `return false` and its        *)
(* `this.traverse(path)` both go on to the next call of the file.          *)
(* Prefixes are built from characters with no meaning in a regular         *)
(* expression (letters, digits, '-').                                      *)
(***************************************************************************)
EXTENDS Integers, Sequences, FiniteSets, TLC

VARIABLES
    files,          \* the file set on disk: files[f][i] is call i of file f
    baseId,         \* the baseId option of the session
    history,        \* the commands run so far: [cmd, overwrite]
    snaps,          \* snaps[r]: the file set when run r started
    pc,             \* position of the running command
    config,         \* the parsed baseId of the running command
    k,              \* the file the running loop is at
    idOccurrences,  \* add: id -> occurrences, as entries in insertion order
    usedIds,        \* add: the used-id set
    totalInc,       \* add: the cursor's offset from baseNumber
    allIds,         \* compare: the matched ids
    io,             \* the reads and writes of the running command, in order
    assigned,       \* the identifiers the running command assigned, in order,
                    \* each with the first candidate tried and the number taken
    out,            \* what the running command printed
    exitCode        \* the exit status of the last command

vars == <<files, baseId, history, snaps, pc, config, k, idOccurrences, usedIds,
          totalInc, allIds, io, assigned, out, exitCode>>

----------------------------------------------------------------------------
(* Bounds *)

\* files of a file set
MaxFiles == 2

\* calls in a file set, when one command runs on it
MaxDecls == 3

\* calls in a file set, when a session of commands runs on it
MaxSessionDecls == 2

\* commands of a session
MaxRuns == 2

\* calls in a file set, when compare alone runs on it
MaxCompareDecls == 4

----------------------------------------------------------------------------
(* Characters and the string functions the commands use *)

Digits == <<"0", "1", "2", "3", "4", "5", "6", "7", "8", "9">>

IsDigit(c) == \E i \in 1..10 : Digits[i] = c

DigitVal(c) == (CHOOSE i \in 1..10 : Digits[i] = c) - 1

\* [A-Za-z], over the letters that occur
IsLetter(c) == c \in {"T", "t", "a", "b", "e", "i", "d"}

\* \s, over the whitespace that occurs
IsSpace(c) == c = " "

AllDigits(s) == \A i \in 1..Len(s) : IsDigit(s[i])

AllLetters(s) == \A i \in 1..Len(s) : IsLetter(s[i])

RECURSIVE parseInt(_)
parseInt(ds) ==
    IF ds = <<>> THEN 0
    ELSE 10 * parseInt(SubSeq(ds, 1, Len(ds) - 1)) + DigitVal(ds[Len(ds)])

RECURSIVE toString(_)
toString(n) ==
    IF n < 10 THEN <<Digits[n + 1]>>
    ELSE toString(n \div 10) \o <<Digits[(n % 10) + 1]>>

RECURSIVE padStart(_, _)
padStart(s, w) == IF Len(s) >= w THEN s ELSE padStart(<<"0">> \o s, w)

\* the length of the final run of digits of s
TrailingDigits(s) ==
    CHOOSE r \in 0..Len(s) :
        /\ \A i \in (Len(s) - r + 1)..Len(s) : IsDigit(s[i])
        /\ r = Len(s) \/ ~IsDigit(s[Len(s) - r])

\* the number of whitespace characters of s from position i on
SpacesFrom(s, i) ==
    CHOOSE c \in 0..Len(s) :
        /\ i + c - 1 <= Len(s)
        /\ \A j \in i..(i + c - 1) : IsSpace(s[j])
        /\ i + c > Len(s) \/ ~IsSpace(s[i + c])

\* the number of digits of s from position i on
DigitsFrom(s, i) ==
    CHOOSE c \in 0..Len(s) :
        /\ i + c - 1 <= Len(s)
        /\ \A j \in i..(i + c - 1) : IsDigit(s[j])
        /\ i + c > Len(s) \/ ~IsDigit(s[i + c])

StartsWith(s, p) == Len(s) >= Len(p) /\ SubSeq(s, 1, Len(p)) = p

Drop(s, n) == SubSeq(s, n + 1, Len(s))

\* String.prototype.trim
trim(s) ==
    LET lead == SpacesFrom(s, 1)
        rest == Drop(s, lead)
        keep == IF rest = <<>> THEN 0
                ELSE CHOOSE n \in 1..Len(rest) :
                        /\ ~IsSpace(rest[n])
                        /\ \A j \in (n + 1)..Len(rest) : IsSpace(rest[j])
    IN  SubSeq(rest, 1, keep)

\* ^(prefix)(\d{width}):\s*  on a title: the length of the match, 0 for none
MatchExact(title, prefix, width) ==
    LET n == Len(prefix) + width
    IN  IF /\ Len(title) >= n + 1
           /\ StartsWith(title, prefix)
           /\ \A i \in (Len(prefix) + 1)..n : IsDigit(title[i])
           /\ title[n + 1] = ":"
        THEN n + 1 + SpacesFrom(title, n + 2)
        ELSE 0

\* ^prefix(\d+):\s*  on a title: the length of the match, 0 for none
MatchAnyWidth(title, prefix) ==
    LET d == IF StartsWith(title, prefix)
             THEN DigitsFrom(title, Len(prefix) + 1) ELSE 0
        n == Len(prefix) + d
    IN  IF d >= 1 /\ Len(title) >= n + 1 /\ title[n + 1] = ":"
        THEN n + 1 + SpacesFrom(title, n + 2)
        ELSE 0

----------------------------------------------------------------------------
(* The calls of a file *)

Call(callee, name, arg, exprs, title) ==
    [callee |-> callee, name |-> name, arg |-> arg, exprs |-> exprs,
     title |-> title]

\* it("...") / test("...")
Str(title) == Call("Identifier", "it", "StringLiteral", 0, title)

\* it(`...`) with no interpolation
Tpl(title) == Call("Identifier", "test", "TemplateLiteral", 0, title)

\* it(`... ${x}`): one interpolation, no title text the commands use
TplN == Call("Identifier", "it", "TemplateLiteral", 1, <<>>)

\* it(name, ...): the first argument is an expression
Expr == Call("Identifier", "it", "Identifier", 0, <<>>)

\* it(): no argument
NoArg == Call("Identifier", "it", "none", 0, <<>>)

\* suite.test("...")
Mem(title) == Call("MemberExpression", "test", "StringLiteral", 0, title)

\* describe("...")
Desc(title) == Call("Identifier", "describe", "StringLiteral", 0, title)

\* recast.types.builders.stringLiteral(title) in place of the first argument
WithStringLiteral(c, title) ==
    [c EXCEPT !.arg = "StringLiteral", !.exprs = 0, !.title = title]

\* the sequences of at most n elements of pool
RECURSIVE SeqsUpTo(_, _)
SeqsUpTo(pool, n) ==
    IF n = 0 THEN {<<>>}
    ELSE LET shorter == SeqsUpTo(pool, n - 1)
         IN  shorter \cup {Append(s, c) : s \in {t \in shorter : Len(t) = n - 1},
                                           c \in pool}

\* the file sets of at most maxFiles files holding at most maxDecls calls in
\* all, each call from pool
RECURSIVE FileSets(_, _, _)
FileSets(pool, maxFiles, maxDecls) ==
    IF maxFiles = 0 THEN {<<>>}
    ELSE {<<>>} \cup
         UNION {{<<file>> \o rest :
                    rest \in FileSets(pool, maxFiles - 1, maxDecls - Len(file))} :
                file \in SeqsUpTo(pool, maxDecls)}

Titled(id, text) == id \o <<":", " ">> \o text

NoConfig == [ok |-> FALSE, prefix |-> <<>>, baseNumber |-> 0, numberLength |-> 0]

OutNone ==
    [error |-> FALSE, noFiles |-> FALSE, duplicates |-> <<>>, total |-> 0,
     cmpDuplicates |-> <<>>, missing |-> <<>>]

Read(f) == [op |-> "read", file |-> f]

Write(f) == [op |-> "write", file |-> f]

Overwrite == history[Len(history)].overwrite

Cmd == history[Len(history)].cmd

----------------------------------------------------------------------------
(* add, first implementation (add.js 1-240) *)

\* /^([A-Za-z]*)(\d+)$/
parseBaseId(id) ==
    LET r == TrailingDigits(id)
        p == SubSeq(id, 1, Len(id) - r)
    IN  IF r = 0 \/ ~AllLetters(p) THEN NoConfig
        ELSE [ok |-> TRUE, prefix |-> p, baseNumber |-> parseInt(Drop(id, Len(p))),
              numberLength |-> r]

\* callee.type === 'Identifier' && (callee.name === 'it' || callee.name === 'test')
isTest(c) == c.callee = "Identifier" /\ c.name \in {"it", "test"}

\* the title parseTestIdsFromFile matches: '' unless the argument is a literal
ScanTitle(c) ==
    IF c.arg = "TemplateLiteral" /\ c.exprs = 0 THEN c.title
    ELSE IF c.arg = "StringLiteral" THEN c.title
    ELSE <<>>

\* the ids parseTestIdsFromFile finds in file f, in document order
RECURSIVE parseTestIdsFromFile(_, _, _, _)
parseTestIdsFromFile(file, f, cfg, i) ==
    IF i > Len(file) THEN <<>>
    ELSE LET c == file[i]
             title == ScanTitle(c)
             m == MatchExact(title, cfg.prefix, cfg.numberLength)
             found == IF isTest(c) /\ c.arg # "none" /\ m > 0
                      THEN <<[id |-> SubSeq(title, 1, Len(cfg.prefix) + cfg.numberLength),
                              title |-> title, file |-> f]>>
                      ELSE <<>>
         IN  found \o parseTestIdsFromFile(file, f, cfg, i + 1)

\* idOccurrences[id].push({file, title}), creating the entry when it is new
PushOccurrence(occ, e) ==
    IF \E j \in 1..Len(occ) : occ[j].id = e.id
    THEN [j \in 1..Len(occ) |->
            IF occ[j].id = e.id
            THEN [occ[j] EXCEPT !.items = Append(@, [file |-> e.file, title |-> e.title])]
            ELSE occ[j]]
    ELSE Append(occ, [id |-> e.id, items |-> <<[file |-> e.file, title |-> e.title]>>])

RECURSIVE PushAll(_, _)
PushAll(occ, found) ==
    IF found = <<>> THEN occ ELSE PushAll(PushOccurrence(occ, Head(found)), Tail(found))

\* the filter with the comparison off by one: list.length > 2
DuplicatesOffByOne(occ) == SelectSeq(occ, LAMBDA e : Len(e.items) > 2)

\* Object.entries(idOccurrences).filter(([_, list]) => list.length > 1)
Duplicates(occ) == SelectSeq(occ, LAMBDA e : Len(e.items) > 1)

\* prefix + newBase.toString().padStart(numberLength, '0')
FormatId(cfg, n) == cfg.prefix \o padStart(toString(n), cfg.numberLength)

\* the do-while of transformFile: the first number from n on whose id is unused
RECURSIVE NextFree(_, _, _)
NextFree(cfg, used, n) ==
    IF FormatId(cfg, n) \in used THEN NextFree(cfg, used, n + 1) ELSE n

\* title.replace(idRegex, '').trim()
StripId(title, cfg) == trim(Drop(title, MatchExact(title, cfg.prefix, cfg.numberLength)))

\* whether transformFile takes the call for a title to manage
Eligible1(c) ==
    /\ isTest(c)
    /\ \/ c.arg = "TemplateLiteral" /\ c.exprs = 0
       \/ c.arg = "StringLiteral"

\* the visitor of transformFile over the calls from i on; st is
\* [file, usedIds, localInc, changed, assigned]
RECURSIVE Visit1(_, _, _, _, _, _)
Visit1(st, f, cfg, ow, baseNumber, i) ==
    IF i > Len(st.file) THEN st
    ELSE LET c == st.file[i]
             hasId == MatchExact(c.title, cfg.prefix, cfg.numberLength) > 0
             n == NextFree(cfg, st.usedIds, baseNumber + st.localInc)
             nextId == FormatId(cfg, n)
             finalTitle == Titled(nextId, StripId(c.title, cfg))
             next == IF ~Eligible1(c) \/ (hasId /\ ~ow) THEN st
                     ELSE [file |-> [st.file EXCEPT ![i] = WithStringLiteral(c, finalTitle)],
                           usedIds |-> st.usedIds \cup {nextId},
                           localInc |-> (n + 1) - baseNumber,
                           changed |-> TRUE,
                           assigned |-> Append(st.assigned,
                                               [file |-> f, idx |-> i, id |-> nextId,
                                                first |-> baseNumber + st.localInc,
                                                number |-> n])]
         IN  Visit1(next, f, cfg, ow, baseNumber, i + 1)

transformFile(file, f, cfg, ow, used, baseNumber) ==
    Visit1([file |-> file, usedIds |-> used, localInc |-> 0, changed |-> FALSE,
            assigned |-> <<>>], f, cfg, ow, baseNumber, 1)

\* what every command does first: a new run on the file set as it is
Begin(cmd, ow) ==
    /\ pc \in {"idle", "done"}
    /\ Len(history) < MaxRuns
    /\ history' = Append(history, [cmd |-> cmd, overwrite |-> ow])
    /\ snaps' = Append(snaps, files)
    /\ io' = <<>>
    /\ assigned' = <<>>
    /\ idOccurrences' = <<>>
    /\ usedIds' = {}
    /\ totalInc' = 0
    /\ allIds' = <<>>
    /\ k' = 1
    /\ UNCHANGED <<files, baseId>>

\* main, to the first loop: resolveConfig, parseBaseId, globSync
Add1Start(ow) ==
    /\ Begin("add1", ow)
    /\ config' = parseBaseId(baseId)
    /\ IF ~config'.ok
       THEN pc' = "done" /\ exitCode' = 0 /\ out' = [OutNone EXCEPT !.error = TRUE]
       ELSE IF files = <<>>
       THEN pc' = "done" /\ exitCode' = 0 /\ out' = [OutNone EXCEPT !.noFiles = TRUE]
       ELSE pc' = "add1_scan" /\ out' = OutNone /\ UNCHANGED exitCode

\* the scan loop leaving after its first file
Add1ScanFirstFileOnly ==
    /\ pc = "add1_scan"
    /\ io' = Append(io, Read(k))
    /\ idOccurrences' = PushAll(idOccurrences, parseTestIdsFromFile(files[k], k, config, 1))
    /\ k' = 1
    /\ pc' = "add1_gate"
    /\ UNCHANGED <<files, baseId, history, snaps, config, usedIds, totalInc, allIds,
                   assigned, out, exitCode>>

\* files.forEach of main: parseTestIdsFromFile on file k
Add1Scan ==
    /\ pc = "add1_scan"
    /\ io' = Append(io, Read(k))
    /\ idOccurrences' = PushAll(idOccurrences, parseTestIdsFromFile(files[k], k, config, 1))
    /\ IF k < Len(files) THEN k' = k + 1 /\ pc' = pc ELSE k' = 1 /\ pc' = "add1_gate"
    /\ UNCHANGED <<files, baseId, history, snaps, config, usedIds, totalInc, allIds,
                   assigned, out, exitCode>>

\* the gate with usedIds starting empty: new Set()
Add1GateForgettingScan ==
    /\ pc = "add1_gate"
    /\ IF Duplicates(idOccurrences) # <<>>
       THEN /\ out' = [out EXCEPT !.duplicates = Duplicates(idOccurrences)]
            /\ pc' = "done"
            /\ exitCode' = 0
            /\ UNCHANGED usedIds
       ELSE /\ usedIds' = {}
            /\ pc' = "add1_transform"
            /\ UNCHANGED <<out, exitCode>>
    /\ UNCHANGED <<files, baseId, history, snaps, config, k, idOccurrences, totalInc,
                   allIds, io, assigned>>

\* main: "Detect duplicates", then usedIds
Add1Gate ==
    /\ pc = "add1_gate"
    /\ IF Duplicates(idOccurrences) # <<>>
       THEN /\ out' = [out EXCEPT !.duplicates = Duplicates(idOccurrences)]
            /\ pc' = "done"
            /\ exitCode' = 0
            /\ UNCHANGED usedIds
       ELSE /\ usedIds' = {idOccurrences[j].id : j \in 1..Len(idOccurrences)}
            /\ pc' = "add1_transform"
            /\ UNCHANGED <<out, exitCode>>
    /\ UNCHANGED <<files, baseId, history, snaps, config, k, idOccurrences, totalInc,
                   allIds, io, assigned>>

\* the loop with config.overwriteExistingIds taken as set
Add1TransformOverwriting ==
    /\ pc = "add1_transform"
    /\ LET r == transformFile(files[k], k, config, TRUE, usedIds,
                              config.baseNumber + totalInc)
       IN  /\ files' = IF r.changed THEN [files EXCEPT ![k] = r.file] ELSE files
           /\ io' = io \o <<Read(k)>> \o (IF r.changed THEN <<Write(k)>> ELSE <<>>)
           /\ usedIds' = r.usedIds
           /\ totalInc' = totalInc + r.localInc
           /\ assigned' = assigned \o r.assigned
    /\ IF k < Len(files)
       THEN k' = k + 1 /\ pc' = pc /\ UNCHANGED exitCode
       ELSE k' = 1 /\ pc' = "done" /\ exitCode' = 0
    /\ UNCHANGED <<baseId, history, snaps, config, idOccurrences, allIds, out>>

\* for (const file of files) of main: transformFile on file k
Add1Transform ==
    /\ pc = "add1_transform"
    /\ LET r == transformFile(files[k], k, config, Overwrite, usedIds,
                              config.baseNumber + totalInc)
       IN  /\ files' = IF r.changed THEN [files EXCEPT ![k] = r.file] ELSE files
           /\ io' = io \o <<Read(k)>> \o (IF r.changed THEN <<Write(k)>> ELSE <<>>)
           /\ usedIds' = r.usedIds
           /\ totalInc' = totalInc + r.localInc
           /\ assigned' = assigned \o r.assigned
    /\ IF k < Len(files)
       THEN k' = k + 1 /\ pc' = pc /\ UNCHANGED exitCode
       ELSE k' = 1 /\ pc' = "done" /\ exitCode' = 0
    /\ UNCHANGED <<baseId, history, snaps, config, idOccurrences, allIds, out>>

----------------------------------------------------------------------------
(* clean, first implementation (unnamed/part_000 1-122) *)

\* /^(.*?)(\d+)$/: the prefix is what precedes the final run of digits
getIdPrefix(id) ==
    LET r == TrailingDigits(id)
    IN  IF r = 0 THEN NoConfig
        ELSE [ok |-> TRUE, prefix |-> SubSeq(id, 1, Len(id) - r),
              baseNumber |-> parseInt(Drop(id, Len(id) - r)), numberLength |-> r]

\* the invoked name, direct or the final property of a member access
calleeName(c) == c.name

\* firstArg.value: a string literal's text; no other node kind has one
ArgValue(c) == IF c.arg = "StringLiteral" THEN c.title ELSE <<>>

\* whether the visitor of clean's transformFile reaches its regex for the call
CleanTakes(c) ==
    /\ calleeName(c) \in {"it", "test"}
    /\ c.arg # "none"
    /\ ArgValue(c) # <<>>

\* the replace with a regex that lacks the trailing \s*
CleanTitleKeepingSpace(title, prefix) ==
    Drop(title, Len(prefix) + DigitsFrom(title, Len(prefix) + 1) + 1)

\* testTitle.replace(idRegex, '') with idRegex = ^prefix(\d+):\s*
CleanTitle(title, prefix) == Drop(title, MatchAnyWidth(title, prefix))

CleanCall(c, prefix) ==
    IF CleanTakes(c) /\ MatchAnyWidth(c.title, prefix) > 0
    THEN WithStringLiteral(c, CleanTitle(c.title, prefix))
    ELSE c

\* the file as clean's transformFile leaves its tree
cleanTransformFile(file, prefix) == [i \in 1..Len(file) |-> CleanCall(file[i], prefix)]

\* main, to the loop: parseArgs, getIdPrefix, globSync
Clean1Start ==
    /\ Begin("clean1", FALSE)
    /\ config' = getIdPrefix(baseId)
    /\ IF ~config'.ok
       THEN pc' = "done" /\ exitCode' = 0 /\ out' = [OutNone EXCEPT !.error = TRUE]
       ELSE IF files = <<>>
       THEN pc' = "done" /\ exitCode' = 0 /\ out' = [OutNone EXCEPT !.noFiles = TRUE]
       ELSE pc' = "clean1_file" /\ out' = OutNone /\ UNCHANGED exitCode

\* matchedFiles.forEach of main: transformFile on file k
Clean1File ==
    /\ pc = "clean1_file"
    /\ LET file == cleanTransformFile(files[k], config.prefix)
           changed == file # files[k]
       IN  /\ files' = [files EXCEPT ![k] = file]
           /\ io' = io \o <<Read(k)>> \o (IF changed THEN <<Write(k)>> ELSE <<>>)
    /\ IF k < Len(files)
       THEN k' = k + 1 /\ pc' = pc /\ UNCHANGED exitCode
       ELSE k' = 1 /\ pc' = "done" /\ exitCode' = 0
    /\ UNCHANGED <<baseId, history, snaps, config, idOccurrences, usedIds, totalInc,
                   allIds, assigned, out>>

----------------------------------------------------------------------------
(* add, second implementation (add.js 242-441) *)

\* /^(.+?)(\d+)$/: the shortest non-empty prefix that leaves only digits
parseBaseId2(id) ==
    LET r == TrailingDigits(id)
        d == IF r = Len(id) THEN r - 1 ELSE r
    IN  IF d < 1 THEN NoConfig
        ELSE [ok |-> TRUE, prefix |-> SubSeq(id, 1, Len(id) - d),
              baseNumber |-> parseInt(Drop(id, Len(id) - d)), numberLength |-> d]

\* whether the visitors of the second implementation take the call: the name
\* is it or test and the first argument is a string or any template literal
Takes2(c) ==
    /\ calleeName(c) \in {"it", "test"}
    /\ c.arg \in {"StringLiteral", "TemplateLiteral"}

\* testTitle: '' for a template literal with interpolations
Title2(c) == IF c.arg = "TemplateLiteral" /\ c.exprs # 0 THEN <<>> ELSE c.title

\* the ids extractTestIds finds in a file, in document order
RECURSIVE extractTestIds(_, _, _)
extractTestIds(file, cfg, i) ==
    IF i > Len(file) THEN <<>>
    ELSE LET c == file[i]
             found == IF Takes2(c)
                         /\ MatchExact(Title2(c), cfg.prefix, cfg.numberLength) > 0
                      THEN <<SubSeq(Title2(c), 1, Len(cfg.prefix) + cfg.numberLength)>>
                      ELSE <<>>
         IN  found \o extractTestIds(file, cfg, i + 1)

\* the visitor of the second transformFile over the calls from i on; st is
\* [file, usedIds, localInc, changed, assigned]
RECURSIVE Visit2(_, _, _, _, _, _)
Visit2(st, f, cfg, ow, startIndex, i) ==
    IF i > Len(st.file) THEN st
    ELSE LET c == st.file[i]
             testTitle == Title2(c)
             hasId == MatchExact(testTitle, cfg.prefix, cfg.numberLength) > 0
             n == NextFree(cfg, st.usedIds, startIndex + st.localInc)
             newId == FormatId(cfg, n)
             finalTitle == Titled(newId, StripId(testTitle, cfg))
             next == IF ~Takes2(c) \/ (hasId /\ ~ow) THEN st
                     ELSE [file |-> [st.file EXCEPT ![i] = WithStringLiteral(c, finalTitle)],
                           usedIds |-> st.usedIds \cup {newId},
                           localInc |-> (n + 1) - startIndex,
                           changed |-> TRUE,
                           assigned |-> Append(st.assigned,
                                               [file |-> f, idx |-> i, id |-> newId,
                                                first |-> startIndex + st.localInc,
                                                number |-> n])]
         IN  Visit2(next, f, cfg, ow, startIndex, i + 1)

transformFile2(file, f, cfg, ow, used, startIndex) ==
    Visit2([file |-> file, usedIds |-> used, localInc |-> 0, changed |-> FALSE,
            assigned |-> <<>>], f, cfg, ow, startIndex, 1)

\* main, to the first loop: parseCliOptions, parseBaseId, globSync
Add2Start(ow) ==
    /\ Begin("add2", ow)
    /\ config' = parseBaseId2(baseId)
    /\ IF ~config'.ok
       THEN pc' = "done" /\ exitCode' = 1 /\ out' = [OutNone EXCEPT !.error = TRUE]
       ELSE IF files = <<>>
       THEN pc' = "done" /\ exitCode' = 0 /\ out' = OutNone
       ELSE pc' = "add2_scan" /\ out' = OutNone /\ UNCHANGED exitCode

\* the first loop of main: readFileSync and extractTestIds on file k
Add2Scan ==
    /\ pc = "add2_scan"
    /\ io' = Append(io, Read(k))
    /\ LET ids == extractTestIds(files[k], config, 1)
       IN  usedIds' = usedIds \cup {ids[j] : j \in 1..Len(ids)}
    /\ IF k < Len(files) THEN k' = k + 1 /\ pc' = pc ELSE k' = 1 /\ pc' = "add2_transform"
    /\ UNCHANGED <<files, baseId, history, snaps, config, idOccurrences, totalInc,
                   allIds, assigned, out, exitCode>>

\* the second loop of main: transformFile on file k, from startNumber
Add2Transform ==
    /\ pc = "add2_transform"
    /\ LET r == transformFile2(files[k], k, config, Overwrite, usedIds, config.baseNumber)
       IN  /\ files' = IF r.changed THEN [files EXCEPT ![k] = r.file] ELSE files
           /\ io' = io \o <<Read(k)>> \o (IF r.changed THEN <<Write(k)>> ELSE <<>>)
           /\ usedIds' = r.usedIds
           /\ assigned' = assigned \o r.assigned
    /\ IF k < Len(files)
       THEN k' = k + 1 /\ pc' = pc /\ UNCHANGED exitCode
       ELSE k' = 1 /\ pc' = "done" /\ exitCode' = 0
    /\ UNCHANGED <<baseId, history, snaps, config, idOccurrences, totalInc, allIds, out>>

----------------------------------------------------------------------------
(* clean, second implementation (unnamed/part_000 124-231) *)

\* title.replace(idRegex, '').trim() with idRegex = ^prefix(\d{numberLength}):\s*
CleanCall2(c, cfg) ==
    IF Eligible1(c) /\ MatchExact(c.title, cfg.prefix, cfg.numberLength) > 0
    THEN WithStringLiteral(c, StripId(c.title, cfg))
    ELSE c

\* the file as cleanFile leaves its tree
cleanFile(file, cfg) == [i \in 1..Len(file) |-> CleanCall2(file[i], cfg)]

\* main, to the loop: resolveConfig, parseBaseId, globSync
Clean2Start ==
    /\ Begin("clean2", FALSE)
    /\ config' = parseBaseId(baseId)
    /\ IF ~config'.ok
       THEN pc' = "done" /\ exitCode' = 0 /\ out' = [OutNone EXCEPT !.error = TRUE]
       ELSE IF files = <<>>
       THEN pc' = "done" /\ exitCode' = 0 /\ out' = [OutNone EXCEPT !.noFiles = TRUE]
       ELSE pc' = "clean2_file" /\ out' = OutNone /\ UNCHANGED exitCode

\* for (const file of files) of main: cleanFile on file k
Clean2File ==
    /\ pc = "clean2_file"
    /\ LET file == cleanFile(files[k], config)
           changed == file # files[k]
       IN  /\ files' = [files EXCEPT ![k] = file]
           /\ io' = io \o <<Read(k)>> \o (IF changed THEN <<Write(k)>> ELSE <<>>)
    /\ IF k < Len(files)
       THEN k' = k + 1 /\ pc' = pc /\ UNCHANGED exitCode
       ELSE k' = 1 /\ pc' = "done" /\ exitCode' = 0
    /\ UNCHANGED <<baseId, history, snaps, config, idOccurrences, usedIds, totalInc,
                   allIds, assigned, out>>

----------------------------------------------------------------------------
(* compare (unnamed/part_001) *)

\* the ids extractIdsFromFile finds in a file, in document order
RECURSIVE extractIdsFromFile(_, _, _)
extractIdsFromFile(file, prefix, i) ==
    IF i > Len(file) THEN <<>>
    ELSE LET c == file[i]
             m == MatchAnyWidth(c.title, prefix)
             ds == SubSeq(c.title, Len(prefix) + 1,
                          Len(prefix) + DigitsFrom(c.title, Len(prefix) + 1))
             found == IF CleanTakes(c) /\ m > 0
                      THEN <<[number |-> parseInt(ds), full |-> prefix \o ds]>>
                      ELSE <<>>
         IN  found \o extractIdsFromFile(file, prefix, i + 1)

\* the keys of fullMap, in insertion order
RECURSIVE FullKeys(_)
FullKeys(ids) ==
    IF ids = <<>> THEN <<>>
    ELSE LET rest == FullKeys(SubSeq(ids, 1, Len(ids) - 1))
             full == ids[Len(ids)].full
         IN  IF \E j \in 1..Len(rest) : rest[j] = full THEN rest ELSE Append(rest, full)

\* fullMap.get(full)
FullCount(ids, full) == Cardinality({j \in 1..Len(ids) : ids[j].full = full})

\* the filter keeping every entry: count > 0
CompareDuplicatesAll(ids) == SelectSeq(FullKeys(ids), LAMBDA full : FullCount(ids, full) > 0)

\* [...fullMap.entries()].filter(([, count]) => count > 1).map(([fullId]) => fullId)
CompareDuplicates(ids) == SelectSeq(FullKeys(ids), LAMBDA full : FullCount(ids, full) > 1)

\* the for loop of compareIds, from i to the largest number found
RECURSIVE MissingFrom(_, _, _)
MissingFrom(numbers, i, max) ==
    IF i > max THEN <<>>
    ELSE (IF i \in numbers THEN <<>> ELSE <<i>>) \o MissingFrom(numbers, i + 1, max)

\* compareIds(idObjects, baseNumber)
compareIds(ids, baseNumber) ==
    LET numbers == {ids[j].number : j \in 1..Len(ids)}
    IN  [missing |-> IF numbers = {} THEN <<>>
                     ELSE MissingFrom(numbers, baseNumber,
                                      CHOOSE m \in numbers : \A n \in numbers : n <= m),
         duplicates |-> CompareDuplicates(ids)]

\* the baseNumber main's call compareIds(allIds) runs with: the default value
\* of the parameter
DefaultBaseNumber == 1

\* main, to the loop: parseArgs, getIdPrefix, globSync
CompareStart ==
    /\ Begin("compare", FALSE)
    /\ config' = getIdPrefix(baseId)
    /\ IF ~config'.ok
       THEN pc' = "done" /\ exitCode' = 0 /\ out' = [OutNone EXCEPT !.error = TRUE]
       ELSE IF files = <<>>
       THEN pc' = "done" /\ exitCode' = 0 /\ out' = [OutNone EXCEPT !.noFiles = TRUE]
       ELSE pc' = "compare_file" /\ out' = OutNone /\ UNCHANGED exitCode

\* matchedFiles.forEach of main: extractIdsFromFile on file k
CompareFile ==
    /\ pc = "compare_file"
    /\ io' = Append(io, Read(k))
    /\ allIds' = allIds \o extractIdsFromFile(files[k], config.prefix, 1)
    /\ IF k < Len(files) THEN k' = k + 1 /\ pc' = pc ELSE k' = 1 /\ pc' = "compare_report"
    /\ UNCHANGED <<files, baseId, history, snaps, config, idOccurrences, usedIds,
                   totalInc, assigned, out, exitCode>>

\* main: compareIds(allIds) and the three lines printed
CompareReport ==
    /\ pc = "compare_report"
    /\ LET r == compareIds(allIds, DefaultBaseNumber)
       IN  out' = [out EXCEPT
                     !.total = Len(allIds),
                     !.cmpDuplicates = r.duplicates,
                     !.missing = [j \in 1..Len(r.missing) |->
                                    config.prefix \o padStart(toString(r.missing[j]),
                                                              config.numberLength)]]
    /\ pc' = "done"
    /\ exitCode' = 0
    /\ UNCHANGED <<files, baseId, history, snaps, config, k, idOccurrences, usedIds,
                   totalInc, allIds, io, assigned>>

----------------------------------------------------------------------------
(* add, driven by a config file (index.cjs); config.startIndex is the seed *)

\* Number.isNaN of what parseIntOf gives
NaN == -1

\* parseInt(str, 10): the value of the leading run of digits, NaN for none
parseIntOf(str) ==
    LET d == DigitsFrom(str, 1)
    IN  IF d = 0 THEN NaN ELSE parseInt(SubSeq(str, 1, d))

\* what the visitors work with: ids are config.startIndex.length digits, with
\* no prefix
loadConfig(startIndex) ==
    [ok |-> TRUE, prefix |-> <<>>, baseNumber |-> parseIntOf(startIndex),
     numberLength |-> Len(startIndex)]

\* whether the visitors get a testTitle that is a string
Takes0(c) ==
    /\ calleeName(c) \in {"it", "test"}
    /\ \/ c.arg = "StringLiteral"
       \/ c.arg = "TemplateLiteral" /\ c.exprs = 0

\* the ids parseTestIdsFromFile finds in file f, in document order
RECURSIVE parseTestIdsFromFile0(_, _, _, _)
parseTestIdsFromFile0(file, f, cfg, i) ==
    IF i > Len(file) THEN <<>>
    ELSE LET c == file[i]
             found == IF Takes0(c) /\ MatchExact(c.title, <<>>, cfg.numberLength) > 0
                      THEN <<[id |-> SubSeq(c.title, 1, cfg.numberLength),
                              title |-> c.title, file |-> f]>>
                      ELSE <<>>
         IN  found \o parseTestIdsFromFile0(file, f, cfg, i + 1)

\* the visitor of transformFile over the calls from i on; st is
\* [file, usedIds, localInc, changed, assigned]
RECURSIVE Visit0(_, _, _, _, _, _)
Visit0(st, f, cfg, ow, globalStartIndexNum, i) ==
    IF i > Len(st.file) THEN st
    ELSE LET c == st.file[i]
             hasIdPrefix == MatchExact(c.title, <<>>, cfg.numberLength) > 0
             n == NextFree(cfg, st.usedIds, globalStartIndexNum + st.localInc)
             nextIdStr == FormatId(cfg, n)
             finalTitle == Titled(nextIdStr, StripId(c.title, cfg))
             next == IF ~Takes0(c) \/ (hasIdPrefix /\ ~ow) THEN st
                     ELSE [file |-> [st.file EXCEPT ![i] = WithStringLiteral(c, finalTitle)],
                           usedIds |-> st.usedIds \cup {nextIdStr},
                           localInc |-> (n - globalStartIndexNum) + 1,
                           changed |-> TRUE,
                           assigned |-> Append(st.assigned,
                                               [file |-> f, idx |-> i, id |-> nextIdStr,
                                                first |-> globalStartIndexNum + st.localInc,
                                                number |-> n])]
         IN  Visit0(next, f, cfg, ow, globalStartIndexNum, i + 1)

transformFile0(file, f, cfg, ow, used, globalStartIndexNum) ==
    Visit0([file |-> file, usedIds |-> used, localInc |-> 0, changed |-> FALSE,
            assigned |-> <<>>], f, cfg, ow, globalStartIndexNum, 1)

\* main, to the first loop: loadConfig, glob.sync
Add0Start(ow) ==
    /\ Begin("add0", ow)
    /\ config' = loadConfig(baseId)
    /\ IF files = <<>>
       THEN pc' = "done" /\ exitCode' = 0 /\ out' = [OutNone EXCEPT !.noFiles = TRUE]
       ELSE pc' = "add0_scan" /\ out' = OutNone /\ UNCHANGED exitCode

\* step 1 of main: parseTestIdsFromFile on file k
Add0Scan ==
    /\ pc = "add0_scan"
    /\ io' = Append(io, Read(k))
    /\ idOccurrences' = PushAll(idOccurrences, parseTestIdsFromFile0(files[k], k, config, 1))
    /\ IF k < Len(files) THEN k' = k + 1 /\ pc' = pc ELSE k' = 1 /\ pc' = "add0_report"
    /\ UNCHANGED <<files, baseId, history, snaps, config, usedIds, totalInc, allIds,
                   assigned, out, exitCode>>

\* steps 2 to 4 of main: the duplicates are printed and main goes on; usedIds;
\* the throw for a startIndex that is no number
Add0Report ==
    /\ pc = "add0_report"
    /\ usedIds' = {idOccurrences[j].id : j \in 1..Len(idOccurrences)}
    /\ IF config.baseNumber = NaN
       THEN /\ out' = [out EXCEPT !.duplicates = Duplicates(idOccurrences),
                                  !.error = TRUE]
            /\ pc' = "done"
            /\ exitCode' = 0
       ELSE /\ out' = [out EXCEPT !.duplicates = Duplicates(idOccurrences)]
            /\ pc' = "add0_transform"
            /\ UNCHANGED exitCode
    /\ UNCHANGED <<files, baseId, history, snaps, config, k, idOccurrences, totalInc,
                   allIds, io, assigned>>

\* step 5 of main: transformFile on file k
Add0Transform ==
    /\ pc = "add0_transform"
    /\ LET r == transformFile0(files[k], k, config, Overwrite, usedIds,
                               config.baseNumber + totalInc)
       IN  /\ files' = IF r.changed THEN [files EXCEPT ![k] = r.file] ELSE files
           /\ io' = io \o <<Read(k)>> \o (IF r.changed THEN <<Write(k)>> ELSE <<>>)
           /\ usedIds' = r.usedIds
           /\ totalInc' = totalInc + r.localInc
           /\ assigned' = assigned \o r.assigned
    /\ IF k < Len(files)
       THEN k' = k + 1 /\ pc' = pc /\ UNCHANGED exitCode
       ELSE k' = 1 /\ pc' = "done" /\ exitCode' = 0
    /\ UNCHANGED <<baseId, history, snaps, config, idOccurrences, allIds, out>>

----------------------------------------------------------------------------
(* The file sets and seeds the commands run on *)

SeedT9 == <<"T", "9">>

SeedT001 == <<"T", "0", "0", "1">>

SeedHyphen == <<"t", "-", "0", "0", "1">>

SeedNoDigits == <<"t", "i", "d">>

SeedDigits == <<"0", "1">>

SeedE2E(n) == <<"e", "2", "e", "-", "0", "0", Digits[n + 1]>>

InitRun ==
    /\ history = <<>>
    /\ snaps = <<>>
    /\ pc = "idle"
    /\ config = NoConfig
    /\ k = 1
    /\ idOccurrences = <<>>
    /\ usedIds = {}
    /\ totalInc = 0
    /\ allIds = <<>>
    /\ io = <<>>
    /\ assigned = <<>>
    /\ out = OutNone
    /\ exitCode = 0

\* one command, any of the six, on a file set: a seed and the calls the
\* files are made of under it
SeedCases ==
    { [seed |-> SeedT9,
       pool |-> {Str(<<"a">>), Tpl(<<" ", "b", " ">>), Str(Titled(SeedT9, <<"a">>)),
                 Mem(Titled(SeedT9, <<"a">>)), TplN}],
      [seed |-> SeedT001,
       pool |-> {Str(<<"a">>), Str(Titled(SeedT001, <<"a">>)),
                 Str(Titled(<<"T", "0", "0", "2">>, <<"b">>)), Expr}],
      [seed |-> SeedHyphen,
       pool |-> {Str(<<" ", "a">>), Str(Titled(SeedHyphen, <<"a">>)), NoArg,
                 Desc(Titled(SeedHyphen, <<"a">>))}],
      [seed |-> SeedNoDigits,
       pool |-> {Str(<<"a">>), Str(Titled(SeedNoDigits, <<"a">>))}],
      [seed |-> SeedDigits,
       pool |-> {Str(<<"a">>), Str(Titled(SeedDigits, <<"a">>)),
                 Tpl(Titled(SeedDigits, <<"a">>)), Str(Titled(<<"1">>, <<"a">>))}] }

Init ==
    /\ \E c \in SeedCases :
        /\ baseId = c.seed
        /\ files \in FileSets(c.pool, MaxFiles, MaxDecls)
    /\ InitRun

Next ==
    \/ /\ history = <<>>
       /\ \/ \E ow \in BOOLEAN : Add1Start(ow)
          \/ \E ow \in BOOLEAN : Add2Start(ow)
          \/ \E ow \in BOOLEAN : Add0Start(ow)
          \/ Clean1Start
          \/ Clean2Start
          \/ CompareStart
    \/ Add1Scan
    \/ Add1Gate
    \/ Add1Transform
    \/ Add2Scan
    \/ Add2Transform
    \/ Add0Scan
    \/ Add0Report
    \/ Add0Transform
    \/ Clean1File
    \/ Clean2File
    \/ CompareFile
    \/ CompareReport

Spec == Init /\ [][Next]_vars

\* a session of add (first implementation) and clean (first implementation)
\* runs on one file set with one baseId
SessionCases ==
    { [seed |-> SeedT9,
       pool |-> {Str(<<"a">>), Tpl(<<" ", "b", " ">>), Str(Titled(SeedT9, <<"a">>)),
                 Mem(Titled(SeedT9, <<"a">>))}],
      [seed |-> SeedT001,
       pool |-> {Str(<<"a">>), Tpl(<<" ", "b", " ">>), Str(Titled(SeedT001, <<"a">>)),
                 Str(Titled(<<"T", "0", "0", "2">>, <<"b">>))}],
      [seed |-> SeedNoDigits,
       pool |-> {Str(<<"a">>), Str(Titled(SeedNoDigits, <<"a">>))}] }

SessionInit ==
    /\ \E c \in SessionCases :
        /\ baseId = c.seed
        /\ files \in FileSets(c.pool, MaxFiles, MaxSessionDecls)
    /\ InitRun

SessionNext ==
    \/ \E ow \in BOOLEAN : Add1Start(ow)
    \/ Add1Scan
    \/ Add1Gate
    \/ Add1Transform
    \/ Clean1Start
    \/ Clean1File

SessionSpec == SessionInit /\ [][SessionNext]_vars

\* compare alone on a file set
CompareCases ==
    { [seed |-> SeedE2E(1),
       pool |-> {Str(Titled(SeedE2E(1), <<"a">>)), Str(Titled(SeedE2E(3), <<"a">>)),
                 Str(Titled(SeedE2E(5), <<"a">>)), Str(<<"a">>)}],
      [seed |-> SeedE2E(3),
       pool |-> {Str(Titled(SeedE2E(3), <<"a">>)), Str(Titled(SeedE2E(5), <<"b">>)),
                 Mem(Titled(SeedE2E(5), <<"a">>)),
                 Str(Titled(<<"e", "2", "e", "-", "5">>, <<"a">>))}],
      [seed |-> SeedNoDigits,
       pool |-> {Str(<<"a">>), Str(Titled(SeedNoDigits, <<"a">>))}] }

CompareInit ==
    /\ \E c \in CompareCases :
        /\ baseId = c.seed
        /\ files \in FileSets(c.pool, MaxFiles, MaxCompareDecls)
    /\ InitRun

CompareNext ==
    \/ history = <<>> /\ CompareStart
    \/ CompareFile
    \/ CompareReport

CompareSpec == CompareInit /\ [][CompareNext]_vars

----------------------------------------------------------------------------
(* The vocabulary of the properties *)

\* the Id Pattern of a seed: the prefix is everything before the final run of
\* digits, the width is the length of that run
SeedWidth == TrailingDigits(baseId)

SeedPrefix == SubSeq(baseId, 1, Len(baseId) - SeedWidth)

SeedNumber == parseInt(Drop(baseId, Len(SeedPrefix)))

\* a test declaration with an eligible title: the invoked name, direct or the
\* final property of a member access, is it or test, and the first argument
\* is a string literal or a template literal with no interpolation
TestDeclaration(c) == c.name \in {"it", "test"}

LiteralTitle(c) ==
    \/ c.arg = "StringLiteral"
    \/ c.arg = "TemplateLiteral" /\ c.exprs = 0

EligibleDeclaration(c) == TestDeclaration(c) /\ LiteralTitle(c)

\* the title begins with a match of the Id Pattern
CarriesId(c) == MatchExact(c.title, SeedPrefix, SeedWidth) > 0

CarriedId(c) == SubSeq(c.title, 1, Len(SeedPrefix) + SeedWidth)

Positions(fs) == UNION {{<<f, i>> : i \in 1..Len(fs[f])} : f \in 1..Len(fs)}

At(fs, p) == fs[p[1]][p[2]]

\* p comes before q in file order, then document order
Precedes(p, q) == p[1] < q[1] \/ (p[1] = q[1] /\ p[2] < q[2])

\* the file set when the running (or last) command started
Before == snaps[Len(snaps)]

Running(cmd) == history # <<>> /\ Cmd = cmd

Finished(cmd) == Running(cmd) /\ pc = "done"

Wrote == \E j \in 1..Len(io) : io[j].op = "write"

----------------------------------------------------------------------------
(* C1 *)

\* what the scan of add (first implementation) finds at a position
ScanSees(p) ==
    LET c == At(Before, p)
    IN  /\ c.callee = "Identifier"
        /\ EligibleDeclaration(c)
        /\ MatchExact(c.title, config.prefix, config.numberLength) > 0

ScanId(p) == SubSeq(At(Before, p).title, 1, Len(config.prefix) + config.numberLength)

ScanCarriers(id) == {p \in Positions(Before) : ScanSees(p) /\ ScanId(p) = id}

ScanDuplicated ==
    {ScanId(p) : p \in {q \in Positions(Before) :
                            ScanSees(q) /\ Cardinality(ScanCarriers(ScanId(q))) > 1}}

\* C1: when add (first implementation) ends and its scan found an identifier
\* on more than one test declaration, no file was written, the file set is as
\* it was, and the report lists exactly the duplicated identifiers, each once,
\* each with exactly the (file, title) pairs of the declarations carrying it.
C1_DuplicateGate ==
    (Finished("add1") /\ config.ok /\ ScanDuplicated # {}) =>
        /\ ~Wrote
        /\ files = Before
        /\ assigned = <<>>
        /\ {out.duplicates[j].id : j \in 1..Len(out.duplicates)} = ScanDuplicated
        /\ \A j, j2 \in 1..Len(out.duplicates) :
                out.duplicates[j].id = out.duplicates[j2].id => j = j2
        /\ \A j \in 1..Len(out.duplicates) :
                LET e == out.duplicates[j]
                    ps == ScanCarriers(e.id)
                IN  /\ Len(e.items) = Cardinality(ps)
                    /\ {e.items[n] : n \in 1..Len(e.items)}
                         = {[file |-> q[1], title |-> At(Before, q).title] : q \in ps}

\* an identifier on two declarations of two files, reported with both
C1_Witness ==
    /\ Finished("add1")
    /\ Len(out.duplicates) = 1
    /\ Len(out.duplicates[1].items) = 2
    /\ out.duplicates[1].items[1].file # out.duplicates[1].items[2].file

----------------------------------------------------------------------------
(* C2 *)

\* C2: when add (first implementation) ends without an error and without the
\* duplicate gate firing, the identifiers carried by the eligible test
\* declarations of all files are pairwise distinct, and no identifier assigned
\* in the run is carried by a declaration the run left unchanged.
C2_Uniqueness ==
    (Finished("add1") /\ ~out.error /\ ~out.noFiles /\ out.duplicates = <<>>) =>
        /\ \A p, q \in Positions(files) :
                (/\ p # q
                 /\ EligibleDeclaration(At(files, p)) /\ CarriesId(At(files, p))
                 /\ EligibleDeclaration(At(files, q)) /\ CarriesId(At(files, q)))
                => CarriedId(At(files, p)) # CarriedId(At(files, q))
        /\ \A j \in 1..Len(assigned) : \A q \in Positions(files) :
                (/\ At(files, q) = At(Before, q)
                 /\ EligibleDeclaration(At(files, q)) /\ CarriesId(At(files, q)))
                => CarriedId(At(files, q)) # assigned[j].id

----------------------------------------------------------------------------
(* C3 *)

\* no eligible title of the file set carries an identifier
CleanFileSet(fs) ==
    \A p \in Positions(fs) :
        EligibleDeclaration(At(fs, p)) => ~CarriesId(At(fs, p))

EligiblePositions(fs) == {p \in Positions(fs) : EligibleDeclaration(At(fs, p))}

\* C3: when add (first implementation) ends on a file set in which no title
\* carries an identifier, with a seed of prefix p, width w and number b, the
\* identifiers assigned are p+pad(b), p+pad(b+1), ..., p+pad(b+N-1), one for
\* each of the N eligible declarations, in file order then document order.
C3_Gapless ==
    (Finished("add1") /\ SeedWidth > 0 /\ CleanFileSet(Before)) =>
        /\ Len(assigned) = Cardinality(EligiblePositions(Before))
        /\ \A j \in 1..Len(assigned) :
              /\ assigned[j].id
                   = SeedPrefix \o padStart(toString(SeedNumber + j - 1), SeedWidth)
              /\ <<assigned[j].file, assigned[j].idx>> \in EligiblePositions(Before)
        /\ \A j, j2 \in 1..Len(assigned) :
              j < j2 => Precedes(<<assigned[j].file, assigned[j].idx>>,
                                 <<assigned[j2].file, assigned[j2].idx>>)

----------------------------------------------------------------------------
(* C4 *)

\* the last two commands of the session
LastTwo(c1, c2) ==
    /\ Len(history) >= 2
    /\ history[Len(history) - 1].cmd = c1
    /\ history[Len(history)].cmd = c2

\* C4: when add (first implementation) ends, having run with overwrite off
\* right after another add with overwrite off on the same file set and
\* baseId, it assigned no identifier, wrote no file and left the file set as
\* it found it.
C4_Idempotent ==
    (/\ Finished("add1")
     /\ LastTwo("add1", "add1")
     /\ ~history[Len(history) - 1].overwrite
     /\ ~history[Len(history)].overwrite) =>
        /\ assigned = <<>>
        /\ ~Wrote
        /\ files = Before

----------------------------------------------------------------------------
(* C5 *)

\* the file set when the command before the last started
BeforePrevious == snaps[Len(snaps) - 1]

RewrittenByAdd(p) == At(Before, p) # At(BeforePrevious, p)

----------------------------------------------------------------------------
(* C6 *)

\* C6 as stated: in a run of add (first implementation) no read of a file
\* comes after a write of a file.
C6_ReadsBeforeWrites ==
    Running("add1") =>
        \A i, j \in 1..Len(io) : (io[i].op = "write" /\ io[j].op = "read") => j < i

\* the reads of the scan phase: those before which nothing was written
ScanRead(i) == \A j \in 1..i : io[j].op = "read"

\* C6, amended: in a run of add (first implementation) every write comes
\* after a scan-phase read of every file of the set, and directly after a
\* second read of the file written.
C6_ScanBeforeWrites ==
    Running("add1") =>
        \A j \in 1..Len(io) :
            io[j].op = "write" =>
                /\ \A f \in 1..Len(files) :
                        \E i \in 1..(j - 1) : io[i] = Read(f) /\ ScanRead(i)
                /\ j > 2
                /\ io[j - 1] = Read(io[j].file)
                /\ \E i \in 1..(j - 2) : io[i] = Read(io[j].file)

\* a file was read after another was written
C6_Witness ==
    /\ Finished("add1")
    /\ \E i, j \in 1..Len(io) :
        /\ i < j
        /\ io[i].op = "write"
        /\ io[j].op = "read"
        /\ io[i].file # io[j].file

----------------------------------------------------------------------------
(* C7 *)

\* what compare matches at a position: an identifier of any width under the
\* seed's prefix, on a declaration whose title compare reads
CompareSees(p) ==
    LET c == At(files, p)
    IN  CleanTakes(c) /\ MatchAnyWidth(c.title, SeedPrefix) > 0

MatchedDigits(p) ==
    LET t == At(files, p).title
    IN  SubSeq(t, Len(SeedPrefix) + 1, Len(SeedPrefix) + DigitsFrom(t, Len(SeedPrefix) + 1))

Matched == {p \in Positions(files) : CompareSees(p)}

\* S: the distinct numeric values of the matched identifiers
MatchedNumbers == {parseInt(MatchedDigits(p)) : p \in Matched}

Largest(S) == CHOOSE m \in S : \A n \in S : n <= m

\* the integers of [base, max(S)] that are not in S
MissingIn(base, S) == IF S = {} THEN {} ELSE {n \in base..Largest(S) : n \notin S}

Formatted(n) == SeedPrefix \o padStart(toString(n), SeedWidth)

\* C7: when compare ends, the missing identifiers it printed are those of the
\* integers of [base, max(S)] not in S, base being the seed's number and S
\* the distinct numbers of the matched identifiers; none when S is empty.
C7_MissingFromSeed ==
    (Finished("compare") /\ ~out.error /\ ~out.noFiles) =>
        /\ {out.missing[j] : j \in 1..Len(out.missing)}
             = {Formatted(n) : n \in MissingIn(SeedNumber, MatchedNumbers)}
        /\ Len(out.missing) = Cardinality(MissingIn(SeedNumber, MatchedNumbers))

----------------------------------------------------------------------------
(* C8 *)

MatchedFull(p) == SeedPrefix \o MatchedDigits(p)

\* the full identifiers matched, by position
FullAt == [p \in Matched |-> MatchedFull(p)]

OccurrencesIn(fullAt, full) == Cardinality({p \in DOMAIN fullAt : fullAt[p] = full})

\* the found identifiers are e2e-001, e2e-003, e2e-003, e2e-005
ExampleFoundIn(fullAt) ==
    /\ baseId = SeedE2E(1)
    /\ Cardinality(DOMAIN fullAt) = 4
    /\ OccurrencesIn(fullAt, SeedE2E(1)) = 1
    /\ OccurrencesIn(fullAt, SeedE2E(3)) = 2
    /\ OccurrencesIn(fullAt, SeedE2E(5)) = 1

\* C8: when compare ends, the total it printed is the number of matched
\* occurrences, and the duplicates it printed are, once each, the full
\* identifiers that occur more than once; for e2e-001, e2e-003, e2e-003,
\* e2e-005 under seed e2e-001 it printed total 4, duplicates e2e-003 and
\* missing e2e-002, e2e-004.
C8_TotalAndDuplicates ==
    (Finished("compare") /\ ~out.error /\ ~out.noFiles) =>
        LET fullAt == FullAt
        IN  /\ out.total = Cardinality(DOMAIN fullAt)
            /\ \A j, j2 \in 1..Len(out.cmpDuplicates) :
                    out.cmpDuplicates[j] = out.cmpDuplicates[j2] => j = j2
            /\ {out.cmpDuplicates[j] : j \in 1..Len(out.cmpDuplicates)}
                 = {fullAt[p] : p \in {q \in DOMAIN fullAt :
                                          OccurrencesIn(fullAt, fullAt[q]) > 1}}
            /\ ExampleFoundIn(fullAt) =>
                    /\ out.total = 4
                    /\ out.cmpDuplicates = <<SeedE2E(3)>>
                    /\ out.missing = <<SeedE2E(2), SeedE2E(4)>>

\* compare ended on the found identifiers of the example
C8_Witness ==
    /\ Finished("compare")
    /\ ExampleFoundIn(FullAt)
    /\ out.total = 4
    /\ out.cmpDuplicates = <<SeedE2E(3)>>

----------------------------------------------------------------------------
(* C9 *)

\* C9: in a run of any add or clean, a call whose first argument is neither
\* a string literal nor a template literal with no interpolation stays as it
\* was and is assigned no identifier.
C9_NonLiteralUntouched ==
    history # <<>> =>
        \A p \in Positions(files) :
            ~LiteralTitle(At(Before, p)) =>
                /\ At(files, p) = At(Before, p)
                /\ \A j \in 1..Len(assigned) : <<assigned[j].file, assigned[j].idx>> # p

----------------------------------------------------------------------------
(* C10 *)

\* C10: a command run with a baseId that has no trailing run of digits ends
\* with a non-zero exit status, having read and written no file.
C10_InvalidSeedFatal ==
    (pc = "done" /\ history # <<>> /\ SeedWidth = 0) =>
        /\ exitCode # 0
        /\ io = <<>>
        /\ files = Before

----------------------------------------------------------------------------
(* C11 *)

\* C11: once a command has parsed a seed that ends in a digit, it did not
\* reject it, and the prefix and width it works with are what precedes the
\* final run of digits and the length of that run.
C11_SameIdPattern ==
    (history # <<>> /\ SeedWidth > 0) =>
        /\ config.ok
        /\ ~out.error
        /\ config.prefix = SeedPrefix
        /\ config.numberLength = SeedWidth

----------------------------------------------------------------------------
(* C12 *)

\* a clean run on the file set as it is would change file f
CleanWouldChange(f) ==
    IF Cmd = "clean1" THEN cleanTransformFile(files[f], config.prefix) # files[f]
    ELSE cleanFile(files[f], config) # files[f]

\* C12: when clean (either implementation) ends, no eligible test
\* declaration's title in any file begins with a match of the Id Pattern, and
\* a second clean with the same baseId would change no file.
C12_CleanRemovesAll ==
    ((Finished("clean1") \/ Finished("clean2")) /\ config.ok) =>
        /\ CleanFileSet(files)
        /\ \A f \in 1..Len(files) : ~CleanWouldChange(f)

----------------------------------------------------------------------------
(* C13 *)

AnyAdd == Running("add0") \/ Running("add1") \/ Running("add2")

\* an identifier is on two test declarations, both direct it/test calls with
\* an eligible title, of the file set the run started on
DuplicateExists ==
    \E p, q \in Positions(Before) :
        /\ p # q
        /\ At(Before, p).callee = "Identifier" /\ At(Before, q).callee = "Identifier"
        /\ EligibleDeclaration(At(Before, p)) /\ CarriesId(At(Before, p))
        /\ EligibleDeclaration(At(Before, q)) /\ CarriesId(At(Before, q))
        /\ CarriedId(At(Before, p)) = CarriedId(At(Before, q))

\* C13: in a run of any add (config-driven, first or second implementation)
\* every write comes after a scan-phase read of every file, and when an
\* identifier is on more than one declaration no file is written.
C13_GateBeforeWrites ==
    AnyAdd =>
        /\ \A j \in 1..Len(io) :
                io[j].op = "write" =>
                    \A f \in 1..Len(files) :
                        \E i \in 1..(j - 1) : io[i] = Read(f) /\ ScanRead(i)
        /\ DuplicateExists => (~Wrote /\ files = Before)

----------------------------------------------------------------------------
(* C14 *)

\* a declaration every command takes: a direct it/test call on a string
\* literal
PlainDeclaration(c) ==
    c.callee = "Identifier" /\ c.name \in {"it", "test"} /\ c.arg = "StringLiteral"

AssignedPositions == {<<assigned[j].file, assigned[j].idx>> : j \in 1..Len(assigned)}

\* C14: a title that does not begin with the prefix, exactly width digits and
\* ':' carries no identifier for any command: clean leaves it as it is,
\* compare counts no identifier of another width, and add with overwrite off
\* gives it an identifier.
C14_SameMatcher ==
    /\ ((Finished("clean1") \/ Finished("clean2")) /\ config.ok) =>
            \A p \in Positions(Before) :
                (PlainDeclaration(At(Before, p)) /\ ~CarriesId(At(Before, p)))
                => At(files, p) = At(Before, p)
    /\ (Finished("compare") /\ config.ok) =>
            \A j \in 1..Len(allIds) :
                Len(allIds[j].full) = Len(SeedPrefix) + SeedWidth
    /\ ((Finished("add1") \/ Finished("add2")) /\ config.ok /\ ~Overwrite
            /\ out.duplicates = <<>>) =>
            \A p \in Positions(Before) :
                (PlainDeclaration(At(Before, p)) /\ ~CarriesId(At(Before, p)))
                => p \in AssignedPositions

----------------------------------------------------------------------------
(* C15 *)

\* the title begins with an identifier, by the matcher of the running command
OwnMatch(c) ==
    IF Cmd \in {"clean1", "compare"}
    THEN MatchAnyWidth(c.title, config.prefix) > 0
    ELSE MatchExact(c.title, config.prefix, config.numberLength) > 0

\* the eligible declarations whose title begins with an identifier / does not
WithId(fs) == {p \in EligiblePositions(fs) : OwnMatch(At(fs, p))}

WithoutId(fs) == {p \in EligiblePositions(fs) : ~OwnMatch(At(fs, p))}

ChangedPositions == {p \in Positions(Before) : At(files, p) # At(Before, p)}

\* C15: every command works on the eligible titles, those of calls named it
\* or test (directly or as the final property of a member access) whose first
\* argument is a string literal or a template literal with no interpolation:
\* the scan of add finds the identifiers of exactly those titles, add with
\* overwrite off assigns to exactly those without an identifier, clean
\* rewrites exactly those with an identifier, and compare counts exactly
\* those with an identifier.
C15_SameExtraction ==
    /\ (Finished("add1") /\ config.ok /\ files # <<>>) =>
            {idOccurrences[j].id : j \in 1..Len(idOccurrences)}
                = {SubSeq(At(Before, p).title, 1, Len(config.prefix) + config.numberLength) :
                       p \in WithId(Before)}
    /\ ((Finished("add1") \/ Finished("add2")) /\ config.ok /\ ~Overwrite
            /\ out.duplicates = <<>>) =>
            AssignedPositions = WithoutId(Before)
    /\ ((Finished("clean1") \/ Finished("clean2")) /\ config.ok) =>
            ChangedPositions = WithId(Before)
    /\ (Finished("compare") /\ config.ok) =>
            Len(allIds) = Cardinality(WithId(files))

----------------------------------------------------------------------------
(* C16 *)

\* the running add is in its loop over the files, about to take file k
Transforming == AnyAdd /\ pc \in {"add0_transform", "add1_transform", "add2_transform"}

\* the visitor's state after the first i calls of file k
VisitedUpTo(i) ==
    LET calls == SubSeq(files[k], 1, i)
    IN  IF Cmd = "add1"
        THEN transformFile(calls, k, config, Overwrite, usedIds,
                           config.baseNumber + totalInc)
        ELSE IF Cmd = "add2"
        THEN transformFile2(calls, k, config, Overwrite, usedIds, config.baseNumber)
        ELSE transformFile0(calls, k, config, Overwrite, usedIds,
                            config.baseNumber + totalInc)

\* C16: in add with overwrite off, an eligible declaration whose title
\* begins with a match of the running command's Id Pattern keeps its title
\* and gets no identifier, and the visitor's cursor, used-id set and changed
\* flag are the same after the declaration as before it.
C16_SkipLeavesAllocation ==
    /\ (AnyAdd /\ ~Overwrite) =>
            \A p \in WithId(Before) :
                At(files, p) = At(Before, p) /\ p \notin AssignedPositions
    /\ (Transforming /\ ~Overwrite) =>
            \A i \in 1..Len(files[k]) :
                (EligibleDeclaration(files[k][i]) /\ OwnMatch(files[k][i])) =>
                    LET b == VisitedUpTo(i - 1)
                        a == VisitedUpTo(i)
                    IN  /\ a.localInc = b.localInc
                        /\ a.usedIds = b.usedIds
                        /\ a.changed = b.changed
                        /\ a.assigned = b.assigned
                        /\ a.file[i] = files[k][i]

\* add skipped a declaration with an identifier and then gave the next
\* declaration of the same file the first identifier still free
C16_Witness ==
    /\ Finished("add1")
    /\ ~Overwrite
    /\ \E p \in WithId(Before) : \E j \in 1..Len(assigned) :
            /\ assigned[j].file = p[1]
            /\ assigned[j].idx > p[2]
            /\ At(files, p) = At(Before, p)
            /\ assigned[j].number > config.baseNumber

----------------------------------------------------------------------------
(* C17 *)

\* C17: in a run of add (first or second implementation) the first candidate
\* number tried for the first declaration given an identifier is the seed's
\* number, and the first candidate tried for any later declaration, of the
\* same or a later file, is at least one past every number consumed before.
C17_CursorNeverReset ==
    (Running("add1") \/ Running("add2")) =>
        /\ assigned # <<>> => assigned[1].first = SeedNumber
        /\ \A j, j2 \in 1..Len(assigned) :
                j < j2 => assigned[j2].first >= assigned[j].number + 1

----------------------------------------------------------------------------
(* C18 *)

\* the scan of the running add finds an identifier at p
Observed(p) ==
    IF Cmd = "add1" THEN ScanSees(p)
    ELSE EligibleDeclaration(At(Before, p)) /\ OwnMatch(At(Before, p))

ObservedIds ==
    {SubSeq(At(Before, p).title, 1, Len(config.prefix) + config.numberLength) :
        p \in {q \in Positions(Before) : Observed(q)}}

\* C18: in a run of add, with overwrite on or off, no identifier assigned is
\* one the scan found in the file set, and no identifier is assigned twice.
C18_NeverReused ==
    AnyAdd =>
        /\ \A j \in 1..Len(assigned) : assigned[j].id \notin ObservedIds
        /\ \A j, j2 \in 1..Len(assigned) :
                j # j2 => assigned[j].id # assigned[j2].id

\* with overwrite on, a declaration carrying the seed's own identifier was
\* given another one, the scan having marked the first as used
C18_Witness ==
    /\ Finished("add1")
    /\ Overwrite
    /\ \E j \in 1..Len(assigned) :
            /\ Observed(<<assigned[j].file, assigned[j].idx>>)
            /\ FormatId(config, assigned[j].first) \in ObservedIds
            /\ assigned[j].number > assigned[j].first

----------------------------------------------------------------------------
(* C19 *)

\* C19: in a run of add every identifier assigned is the run's prefix
\* followed by exactly width digits, and the title written with it begins
\* with a match of the run's Id Pattern.
C19_ExactWidthAssigned ==
    AnyAdd =>
        \A j \in 1..Len(assigned) :
            /\ Len(assigned[j].id) = Len(config.prefix) + config.numberLength
            /\ StartsWith(assigned[j].id, config.prefix)
            /\ AllDigits(Drop(assigned[j].id, Len(config.prefix)))
            /\ MatchExact(files[assigned[j].file][assigned[j].idx].title,
                          config.prefix, config.numberLength) > 0

====
